---- MODULE Spec2Model ----
(***************************************************************************)
(* One run of the Streamlit script app.py, section by section: Live        *)
(* Weather (tab1), Climate Dataset (tab2), Predictions (tab3) and Data     *)
(* Insights (tab4).  The module-level variable df is shared by the         *)
(* sections.  Dates are whole days, counted from 1 = 1 January 2023;       *)
(* temperatures are integers and the regression is carried out in exact    *)
(* rational arithmetic (the code uses 64-bit floats).                       *)
(***************************************************************************)
EXTENDS Integers, Sequences, FiniteSets, TLC

VARIABLES
    pc,             \* the section the script is about to run, "done", or "crashed"
    uploaded_file,  \* what st.file_uploader returned in this run
    df,             \* the shared module-level df: None or Some(frame)
    shown,          \* the messages and tables put on the page so far
    model,          \* the fitted LinearRegression: None or Some([coef, intercept])
    fit_X,          \* the X handed to model.fit: None or Some(sequence)
    fit_y,          \* the y handed to model.fit: None or Some(sequence)
    predict_X,      \* the features handed to model.predict: None or Some(sequence)
    forecast_df,    \* None or Some(sequence of [Date, Predicted])
    combined,       \* the merged live + predicted table: None or Some(sequence)
    http,           \* [calls: fetch_forecast calls, requests: GET requests sent]
    live_response,  \* the response to tab3's fetch_forecast: None or Some(response)
    df_tab2,        \* history: the value of df when the dataset section ended
    insights_df     \* history: the value of df that Data Insights read

vars == <<pc, uploaded_file, df, shown, model, fit_X, fit_y, predict_X,
          forecast_df, combined, http, live_response, df_tab2, insights_df>>

-----------------------------------------------------------------------------
(* Bounds of the model *)

\* most rows in an uploaded CSV (full script run)
MaxRows == 3
\* most rows in a series of clean observations (predictions on clean data)
MaxSeriesRows == 3

-----------------------------------------------------------------------------
(* Optional values *)

None == <<>>
Some(x) == <<x>>

\* the sequence f with its elements computed once (a list, an array)
List(f) == f \o <<>>

(* Exact rationals <<numerator, denominator>>, denominator > 0, in lowest terms *)

Abs(a) == IF a < 0 THEN -a ELSE a

RECURSIVE GCD(_, _)
GCD(a, b) == IF b = 0 THEN a ELSE GCD(b, a % b)

Rat(n, d) ==
    LET g == GCD(Abs(n), Abs(d))
        s == IF d < 0 THEN -1 ELSE 1
    IN  <<(s * n) \div g, (s * d) \div g>>

RInt(n) == <<n, 1>>

\* sums and products cancel common factors before they multiply
RAdd(p, q) ==
    LET g == GCD(p[2], q[2])
    IN  Rat(p[1] * (q[2] \div g) + q[1] * (p[2] \div g), (p[2] \div g) * q[2])
RNeg(p) == <<-p[1], p[2]>>
RSub(p, q) == RAdd(p, RNeg(q))
RMul(p, q) ==
    LET g1 == GCD(Abs(p[1]), q[2])
        g2 == GCD(Abs(q[1]), p[2])
    IN  Rat((p[1] \div g1) * (q[1] \div g2), (p[2] \div g2) * (q[2] \div g1))
\* q is not zero
RDiv(p, q) == RMul(p, IF q[1] < 0 THEN <<-q[2], -q[1]>> ELSE <<q[2], q[1]>>)

RECURSIVE RSum(_)
RSum(s) == IF s = <<>> THEN RInt(0) ELSE RAdd(Head(s), RSum(Tail(s)))

\* numpy mean of a non-empty sequence of rationals
RMean(s) == RDiv(RSum(s), RInt(Len(s)))

-----------------------------------------------------------------------------
(* The calendar behind Timestamp.dayofyear and Timestamp + timedelta *)

IsLeap(y) == y % 4 = 0 /\ (y % 100 # 0 \/ y % 400 = 0)
YearLength(y) == IF IsLeap(y) THEN 366 ELSE 365

RECURSIVE DayOfYearFrom(_, _)
DayOfYearFrom(d, y) ==
    IF d <= YearLength(y) THEN d ELSE DayOfYearFrom(d - YearLength(y), y + 1)

\* Timestamp.dayofyear of day d (day 1 is 1 January 2023)
DayOfYear(d) == DayOfYearFrom(d, 2023)

-----------------------------------------------------------------------------
(* Cells of a table *)

Num(n) == <<"num", n>>          \* a number
NaN == <<"nan", 0>>             \* a missing cell
Text(d) == <<"text", d>>        \* a string that denotes day d
BadText == <<"bad", 0>>         \* a string pd.to_datetime cannot parse
Timestamp(d) == <<"ts", d>>     \* pd.Timestamp of day d
NaT == <<"nat", 0>>

isna(c) == c[1] \in {"nan", "nat"}

\* column names
DATE_FULL == "Date.Full"
TEMP == "Data.Temperature.Avg Temp"
PRECIP == "Data.Precipitation"

-----------------------------------------------------------------------------
(* Data frames: [columns: set of names, rows: sequence of functions          *)
(* columns -> cell]                                                          *)

Frame(cols, rows) == [columns |-> cols, rows |-> rows]

HasColumn(d, c) == c \in d.columns

\* (variant: the emptiness guard never triggers)
Empty_Never(d) == FALSE

\* DataFrame.empty: no rows or no columns
Empty(d) == Len(d.rows) = 0 \/ d.columns = {}

\* DataFrame.dropna(subset=...): the rows with no missing cell in subset
DropNA(d, subset) ==
    LET Keep(r) == \A c \in subset : ~ isna(r[c])
    IN  Frame(d.columns, SelectSeq(d.rows, Keep))

\* df[c] = values (one value per row, in row order)
SetColumn(d, c, values) ==
    Frame(d.columns \cup {c},
          List([i \in 1..Len(d.rows) |-> (c :> values[i]) @@ d.rows[i]]))

\* the orders of the positions I of rows that are ascending in the day of
\* column c: any position with the least day comes first
RECURSIVE SortedOrders(_, _, _)
SortedOrders(rows, c, I) ==
    IF I = {} THEN {<<>>}
    ELSE UNION {{<<i>> \o rest : rest \in SortedOrders(rows, c, I \ {i})} :
                  i \in {j \in I : \A k \in I : rows[j][c][2] <= rows[k][c][2]}}

\* every order of rows that is ascending in the day of column c (the default
\* quicksort of sort_values does not fix the order of ties)
SortRows(rows, c) ==
    {List([i \in 1..Len(rows) |-> rows[p[i]]]) :
        p \in SortedOrders(rows, c, 1..Len(rows))}

\* (variant: the rows are left in upload order)
SortValues_Unsorted(d, c) == {d}

\* DataFrame.sort_values(c) for a column of timestamps: the possible results
SortValues(d, c) == {Frame(d.columns, rows) : rows \in SortRows(d.rows, c)}

\* Series.values of column c
Values(d, c) == List([i \in 1..Len(d.rows) |-> d.rows[i][c]])

-----------------------------------------------------------------------------
(* Inputs *)

\* days that the 'Date.Full' cells of an uploaded CSV may denote
UploadDays == {1, 3}
\* temperatures that the cells of an uploaded CSV may hold
UploadTemps == {1}

\* days and temperatures of a series of clean observations: neighbouring
\* days, a gap, the last day of 2023 and the first of 2024
SeriesDays == {1, 2, 3, 365, 366}
SeriesTemps == {0, 1, 2}

CellsOf(c, days, temps, dirty) ==
    IF c = DATE_FULL
      THEN {Text(d) : d \in days} \cup (IF dirty THEN {BadText, NaN} ELSE {})
    ELSE IF c = TEMP
      THEN {Num(t) : t \in temps} \cup (IF dirty THEN {NaN} ELSE {})
    ELSE {Num(0)}

RowsOver(cols, days, temps, dirty) ==
    {r \in [cols -> UNION {CellsOf(c, days, temps, dirty) : c \in cols}] :
        \A c \in cols : r[c] \in CellsOf(c, days, temps, dirty)}

SeqsUpTo(S, n) == UNION {[1..k -> S] : k \in 0..n}

NoFile == [kind |-> "none", columns |-> {}, rows |-> <<>>]
\* a file pd.read_csv raises on (empty, not CSV)
Unreadable == [kind |-> "unreadable", columns |-> {}, rows |-> <<>>]
Csv(cols, rows) == [kind |-> "csv", columns |-> cols, rows |-> rows]

\* what the user may have put in the file uploader
Uploads ==
    {NoFile, Unreadable} \cup
    UNION {{Csv(cols, rows) : rows \in SeqsUpTo(RowsOver(cols, UploadDays, UploadTemps, TRUE), MaxRows)} :
              cols \in (SUBSET {DATE_FULL, TEMP, PRECIP}) \ {{}}}

\* rows listed in chronological order
Chronological(rows) ==
    \A i \in 1..Len(rows) - 1 : rows[i][DATE_FULL][2] <= rows[i + 1][DATE_FULL][2]

\* CSV files of clean observations: all three columns, every cell valid, the
\* rows in chronological order.  tab3 sorts the frame by date before it fits,
\* and SortValues yields every order of rows that share a date, so these
\* files give the fit every series that the files in any row order give it;
\* Uploads has the files whose rows are out of order.
SeriesUploads ==
    {Csv({DATE_FULL, TEMP, PRECIP}, rows) :
        rows \in {s \in SeqsUpTo(RowsOver({DATE_FULL, TEMP, PRECIP}, SeriesDays, SeriesTemps, FALSE),
                                MaxSeriesRows) : Chronological(s)}}

\* a forecast day of the WeatherAPI answer
LiveDay(d) == [date |-> Text(d), avgtemp_c |-> Num(20)]

\* what requests.get may do: raise, or return a response.  A 200 response
\* carries the service's forecast object with at least one forecast day.
Responses ==
    {[raises |-> TRUE, status_code |-> 0, forecastday |-> <<>>],
     [raises |-> FALSE, status_code |-> 200, forecastday |-> <<LiveDay(3), LiveDay(4)>>],
     [raises |-> FALSE, status_code |-> 401, forecastday |-> <<>>]}

Cities == {"", "Mohali"}

-----------------------------------------------------------------------------
(* fetch_forecast *)

\* the value returned for response resp, and the GET requests sent for it
fetch_forecast(resp) ==
    [result |-> IF resp.status_code = 200 THEN Some(resp.forecastday) ELSE None,
     requests |-> 1]

-----------------------------------------------------------------------------
(* tab2: upload and clean *)

\* pd.to_datetime(val) raises
to_datetime_raises(val) == val[1] = "bad"

\* pd.to_datetime(val) when it does not raise: a missing cell gives NaT
to_datetime(val) == IF val[1] = "text" THEN Timestamp(val[2]) ELSE NaT

\* the loop over df["Date.Full"]: parsed_dates
parsed_dates(col) ==
    List([i \in 1..Len(col) |->
            IF to_datetime_raises(col[i]) THEN NaT ELSE to_datetime(col[i])])

\* the loop over df["Date.Full"]: the positions recorded in invalid_dates
invalid_dates(col) == {i \in 1..Len(col) : to_datetime_raises(col[i])}

\* the body of tab2 for an uploaded file f: the new df and the messages shown
LoadDataset(f) ==
    IF f.kind = "none" THEN [df |-> None, shown |-> {}]
    ELSE IF f.kind = "unreadable" THEN [df |-> None, shown |-> {"t2_error_loading"}]
    ELSE LET raw == Frame(f.columns, f.rows) IN
         IF ~ HasColumn(raw, DATE_FULL)
           THEN [df |-> Some(raw), shown |-> {"t2_error_loading"}]
         ELSE LET col == Values(raw, DATE_FULL)
                  dated == SetColumn(raw, "Date", parsed_dates(col))
              IN  [df |-> Some(DropNA(dated, {"Date"})),
                   shown |-> {IF invalid_dates(col) # {}
                                THEN "t2_invalid_dates_warning"
                                ELSE "t2_all_dates_parsed",
                              "t2_loaded"}]

-----------------------------------------------------------------------------
(* tab3: predictions *)

\* range(1, 8) has 7 steps
Horizon == 7

\* (variant: X is not centred before the slope is computed)
LinearRegressionFit_NotCentred(X, y) ==
    LET n == Len(X)
        Xr == List([i \in 1..n |-> RInt(X[i])])
        yr == List([i \in 1..n |-> RInt(y[i])])
        X_offset == RMean(Xr)
        y_offset == RMean(yr)
        yc == List([i \in 1..n |-> RSub(yr[i], y_offset)])
        sxx == RSum(List([i \in 1..n |-> RMul(Xr[i], Xr[i])]))
        sxy == RSum(List([i \in 1..n |-> RMul(Xr[i], yc[i])]))
        coef == IF sxx = RInt(0) THEN RInt(0) ELSE RDiv(sxy, sxx)
    IN  [coef |-> coef, intercept |-> RSub(y_offset, RMul(X_offset, coef))]

\* LinearRegression().fit(X, y) for one feature and at least one sample: X and
\* y are centred on their means, coef_ is the least-squares solution of
\* minimum norm (0 when the centred X is all zero) and intercept_ is
\* mean(y) - mean(X) * coef_
LinearRegressionFit(X, y) ==
    LET n == Len(X)
        Xr == List([i \in 1..n |-> RInt(X[i])])
        yr == List([i \in 1..n |-> RInt(y[i])])
        X_offset == RMean(Xr)
        y_offset == RMean(yr)
        Xc == List([i \in 1..n |-> RSub(Xr[i], X_offset)])
        yc == List([i \in 1..n |-> RSub(yr[i], y_offset)])
        sxx == RSum(List([i \in 1..n |-> RMul(Xc[i], Xc[i])]))
        sxy == RSum(List([i \in 1..n |-> RMul(Xc[i], yc[i])]))
        coef == IF sxx = RInt(0) THEN RInt(0) ELSE RDiv(sxy, sxx)
    IN  [coef |-> coef, intercept |-> RSub(y_offset, RMul(X_offset, coef))]

\* model.predict(X)
Predict(m, X) ==
    List([i \in 1..Len(X) |-> RAdd(RMul(RInt(X[i]), m.coef), m.intercept)])

\* (variant: range(0, 7))
prediction_features_FromZero(last_date) ==
    List([i \in 1..Horizon |-> DayOfYear(last_date) + i - 1])

\* [last_date.dayofyear + i for i in range(1, 8)]
prediction_features(last_date) ==
    List([i \in 1..Horizon |-> DayOfYear(last_date) + i])

\* (variant: range(0, 7))
forecast_dates_FromZero(last_date) == List([i \in 1..Horizon |-> last_date + i - 1])

\* [last_date + timedelta(days=i) for i in range(1, 8)]
forecast_dates(last_date) == List([i \in 1..Horizon |-> last_date + i])

\* a predicted temperature as a cell, and the missing cell of that column
RNum(r) == <<"num", r>>
RNaN == <<"nan", <<0, 1>>>>

\* the table built from the live answer's forecast days
forecast_live_df(days) ==
    List([i \in 1..Len(days) |->
            [Date |-> to_datetime(days[i].date), Live |-> days[i].avgtemp_c]])

RECURSIVE Flatten(_)
Flatten(ss) == IF ss = <<>> THEN <<>> ELSE Head(ss) \o Flatten(Tail(ss))

\* (variant: how="inner")
MergeOuter_Inner(left, right) ==
    Flatten(List([i \in 1..Len(left) |->
        LET Partners == SelectSeq(right, LAMBDA r : r.Date = left[i].Date)
        IN  List([j \in 1..Len(Partners) |->
                    [Date |-> left[i].Date, Live |-> left[i].Live,
                     Predicted |-> RNum(Partners[j].Predicted)]])]))

\* pd.merge(left, right, on="Date", how="outer"): every pair of rows with the
\* same Date, the left rows without a partner, the right rows without one
MergeOuter(left, right) ==
    LET Partners(l) == SelectSeq(right, LAMBDA r : r.Date = l.Date)
        Joined(l) ==
            IF Partners(l) = <<>>
              THEN <<[Date |-> l.Date, Live |-> l.Live, Predicted |-> RNaN]>>
              ELSE [j \in 1..Len(Partners(l)) |->
                       [Date |-> l.Date, Live |-> l.Live,
                        Predicted |-> RNum(Partners(l)[j].Predicted)]]
        RightOnly == SelectSeq(right, LAMBDA r : \A i \in 1..Len(left) : left[i].Date # r.Date)
    IN  Flatten(List([i \in 1..Len(left) |-> Joined(left[i])]))
        \o [j \in 1..Len(RightOnly) |->
               [Date |-> RightOnly[j].Date, Live |-> NaN,
                Predicted |-> RNum(RightOnly[j].Predicted)]]

\* Series.dt.dayofyear of a column of timestamps
dayofyear(col) == List([i \in 1..Len(col) |-> Num(DayOfYear(col[i][2]))])

\* the numbers in a column of numeric cells (.values)
Unboxed(col) == List([i \in 1..Len(col) |-> col[i][2]])

\* pd.DataFrame({'Date': dates, 'Predicted Temp': temps})
ForecastFrame(dates, temps) ==
    List([i \in 1..Len(dates) |-> [Date |-> Timestamp(dates[i]), Predicted |-> temps[i]]])

\* an uncaught exception: the section shows the traceback and the script stops
Crash(where) == /\ pc' = "crashed"
                /\ shown' = shown \cup {where}

Tab3Predictions ==
    /\ pc = "tab3"
    /\ UNCHANGED <<uploaded_file, df_tab2, insights_df>>
    /\ IF df = None THEN
           /\ shown' = shown \cup {"t3_please_upload"}
           /\ pc' = "tab4"
           /\ UNCHANGED <<df, model, fit_X, fit_y, predict_X, forecast_df,
                          combined, http, live_response>>
       ELSE IF Empty(df[1]) THEN
           /\ shown' = shown \cup {"t3_empty_error"}
           /\ pc' = "tab4"
           /\ UNCHANGED <<df, model, fit_X, fit_y, predict_X, forecast_df,
                          combined, http, live_response>>
       ELSE IF ~ HasColumn(df[1], TEMP) THEN
           /\ shown' = shown \cup {"t3_no_temperature_column_error"}
           /\ pc' = "tab4"
           /\ UNCHANGED <<df, model, fit_X, fit_y, predict_X, forecast_df,
                          combined, http, live_response>>
       ELSE IF ~ HasColumn(df[1], "Date") THEN
           \* KeyError from dropna(subset=['Date', ...])
           /\ Crash("t3_exception")
           /\ UNCHANGED <<df, model, fit_X, fit_y, predict_X, forecast_df,
                          combined, http, live_response>>
       ELSE
           \* a value is bound with \E x \in {e} where the code assigns x = e
           \E sorted \in SortValues(DropNA(df[1], {"Date", TEMP}), "Date") :
           \E new_df \in {SetColumn(sorted, "DayOfYear", dayofyear(Values(sorted, "Date")))} :
           \E X \in {Unboxed(Values(new_df, "DayOfYear"))} :
           \E y \in {Unboxed(Values(new_df, TEMP))} :
               /\ df' = Some(new_df)
               /\ fit_X' = Some(X)
               /\ fit_y' = Some(y)
               /\ IF Len(X) = 0 THEN
                      \* ValueError from model.fit: no samples
                      /\ Crash("t3_exception")
                      /\ UNCHANGED <<model, predict_X, forecast_df, combined,
                                     http, live_response>>
                  ELSE
                      \E m \in {LinearRegressionFit(X, y)} :
                      \E last_date \in {new_df.rows[Len(new_df.rows)]["Date"][2]} :
                      \E features \in {prediction_features(last_date)} :
                      \E fc \in {ForecastFrame(forecast_dates(last_date), Predict(m, features))} :
                          /\ model' = Some(m)
                          /\ predict_X' = Some(features)
                          /\ forecast_df' = Some(fc)
                          /\ \E resp \in Responses :
                             \E got \in {fetch_forecast(resp)} :
                               /\ http' = [calls |-> http.calls + 1,
                                           requests |-> http.requests + got.requests]
                               /\ live_response' = Some(resp)
                               /\ IF resp.raises THEN
                                      /\ pc' = "crashed"
                                      /\ shown' = shown \cup {"t3_forecast_table", "t3_exception"}
                                      /\ combined' = None
                                  ELSE IF got.result # None THEN
                                      \E merged \in SortRows(MergeOuter(forecast_live_df(got.result[1]), fc), "Date") :
                                        /\ combined' = Some(merged)
                                        /\ shown' = shown \cup {"t3_forecast_table", "t3_combined_table"}
                                        /\ pc' = "tab4"
                                  ELSE
                                      /\ combined' = None
                                      /\ shown' = shown \cup {"t3_forecast_table",
                                                              "t3_live_unavailable_warning"}
                                      /\ pc' = "tab4"

-----------------------------------------------------------------------------
(* tab1: live weather *)

Tab1LiveWeather ==
    /\ pc = "tab1"
    /\ UNCHANGED <<uploaded_file, df, model, fit_X, fit_y, predict_X, forecast_df,
                   combined, live_response, df_tab2, insights_df>>
    /\ \E city \in Cities, resp \in Responses :
         IF city = "" THEN
             /\ pc' = "tab2"
             /\ UNCHANGED <<shown, http>>
         ELSE
             LET got == fetch_forecast(resp) IN
             /\ http' = [calls |-> http.calls + 1,
                         requests |-> http.requests + got.requests]
             /\ IF resp.raises THEN Crash("t1_exception")
                ELSE /\ pc' = "tab2"
                     /\ shown' = shown \cup {IF got.result # None THEN "t1_metrics"
                                                                   ELSE "t1_error"}

(* tab2: upload and clean *)

Tab2ClimateDataset ==
    /\ pc = "tab2"
    /\ \E f \in Uploads :
         /\ uploaded_file' = f
         /\ df' = LoadDataset(f).df
         /\ df_tab2' = LoadDataset(f).df
         /\ shown' = shown \cup LoadDataset(f).shown
    /\ pc' = "tab3"
    /\ UNCHANGED <<model, fit_X, fit_y, predict_X, forecast_df, combined, http,
                   live_response, insights_df>>

(* tab4: data insights *)

\* a cell computed by the insights section (moving average, z-score, month, year)
Derived == <<"derived", 0>>

InsightColumns == {"Temp_MA7", "Temp_zscore", "Month", "Year", "Temp_MA30", "Temp_MA60"}

RECURSIVE SetColumns(_, _)
SetColumns(d, cs) ==
    IF cs = {} THEN d
    ELSE LET c == CHOOSE x \in cs : TRUE
         IN  SetColumns(SetColumn(d, c, [i \in 1..Len(d.rows) |-> Derived]), cs \ {c})

Tab4DataInsights ==
    /\ pc = "tab4"
    /\ UNCHANGED <<uploaded_file, model, fit_X, fit_y, predict_X, forecast_df,
                   combined, http, live_response, df_tab2>>
    /\ insights_df' = df
    /\ IF df = None THEN
           /\ shown' = shown \cup {"t4_please_upload"}
           /\ pc' = "done"
           /\ UNCHANGED df
       ELSE IF ~ (HasColumn(df[1], TEMP) /\ HasColumn(df[1], PRECIP)) THEN
           \* KeyError from df[['Data.Temperature.Avg Temp', 'Data.Precipitation']]
           /\ Crash("t4_exception")
           /\ UNCHANGED df
       ELSE IF ~ HasColumn(df[1], "Date") THEN
           \* KeyError from df.plot(x="Date", ...)
           /\ pc' = "crashed"
           /\ shown' = shown \cup {"t4_summary", "t4_exception"}
           /\ UNCHANGED df
       ELSE IF Len(df[1].rows) = 0 THEN
           \* TypeError from df.plot: no numeric data to plot
           /\ pc' = "crashed"
           /\ shown' = shown \cup {"t4_summary", "t4_exception"}
           /\ UNCHANGED df
       ELSE
           /\ df' = Some(SetColumns(df[1], InsightColumns))
           /\ shown' = shown \cup {"t4_summary", "t4_plots"}
           /\ pc' = "done"

-----------------------------------------------------------------------------
(* The script run *)

Init ==
    /\ pc = "tab1"
    /\ uploaded_file = NoFile
    /\ df = None
    /\ shown = {}
    /\ model = None
    /\ fit_X = None
    /\ fit_y = None
    /\ predict_X = None
    /\ forecast_df = None
    /\ combined = None
    /\ http = [calls |-> 0, requests |-> 0]
    /\ live_response = None
    /\ df_tab2 = None
    /\ insights_df = None

Next ==
    \/ Tab1LiveWeather
    \/ Tab2ClimateDataset
    \/ Tab3Predictions
    \/ Tab4DataInsights

Spec == Init /\ [][Next]_vars

\* The predictions section on a series of clean observations:
\* the state when tab3 starts, after tab1 showed the live metrics and tab2
\* loaded a CSV whose cells are all valid
InitFit ==
    \E f \in SeriesUploads :
        /\ pc = "tab3"
        /\ uploaded_file = f
        /\ df = LoadDataset(f).df
        /\ df_tab2 = LoadDataset(f).df
        /\ shown = {"t1_metrics"} \cup LoadDataset(f).shown
        /\ model = None
        /\ fit_X = None
        /\ fit_y = None
        /\ predict_X = None
        /\ forecast_df = None
        /\ combined = None
        /\ http = [calls |-> 1, requests |-> 1]
        /\ live_response = None
        /\ insights_df = None

NextFit == Tab3Predictions

SpecFit == InitFit /\ [][NextFit]_vars

-----------------------------------------------------------------------------
(* Vocabulary of the properties *)

\* the uploaded file is a CSV with column c
FileHas(c) == uploaded_file.kind = "csv" /\ c \in uploaded_file.columns

\* the rows of the uploaded CSV with a parseable date and a temperature
IsUsable(r) == r[DATE_FULL][1] = "text" /\ r[TEMP][1] = "num"
UsableRows ==
    IF FileHas(DATE_FULL) /\ FileHas(TEMP)
      THEN SelectSeq(uploaded_file.rows, IsUsable)
      ELSE <<>>

\* the latest day among the usable rows (there is one)
LastUsableDay ==
    CHOOSE d \in {UsableRows[i][DATE_FULL][2] : i \in 1..Len(UsableRows)} :
        \A i \in 1..Len(UsableRows) : UsableRows[i][DATE_FULL][2] <= d

\* the predictions section has run (to its end, or to an exception)
PredictionsRan ==
    \/ pc \in {"tab4", "done"}
    \/ "t3_exception" \in shown
    \/ "t4_exception" \in shown

Predicted(k) == forecast_df[1][k].Predicted

\* the values of the series in the order handed to the fit, and its step-to-
\* step differences
Series == fit_y[1]
Differences == List([i \in 1..Len(Series) - 1 |-> RInt(Series[i + 1] - Series[i])])
LastValue == Series[Len(Series)]

\* the residual of observation i under the fitted line
Residual(i) ==
    RSub(RInt(fit_y[1][i]),
         RAdd(model[1].intercept, RMul(model[1].coef, RInt(fit_X[1][i]))))

\* no two observations of the fitted series share a date
DistinctDates ==
    \A i \in 1..Len(df[1].rows) - 1 :
        df[1].rows[i]["Date"][2] < df[1].rows[i + 1]["Date"][2]

-----------------------------------------------------------------------------
(* C1 *)

-----------------------------------------------------------------------------
(* C2 *)

\* the series has the same difference between all neighbouring values
ConstantDifference ==
    \A i \in 1..Len(Differences) : Differences[i] = Differences[1]

\* the observations fall on consecutive days of one calendar year
ConsecutiveDaysOfOneYear ==
    LET rows == df[1].rows IN
    \A i \in 1..Len(rows) - 1 :
        /\ rows[i + 1]["Date"][2] = rows[i]["Date"][2] + 1
        /\ DayOfYear(rows[i + 1]["Date"][2]) = DayOfYear(rows[i]["Date"][2]) + 1

-----------------------------------------------------------------------------
(* C3 *)

\* C3 as stated: once the predictions section has run on an uploaded table
\* with date and temperature columns, 0 or 1 usable observations give an
\* error and no forecast, and exactly 2 usable observations give a forecast
\* whose step k is last_value + (the single difference) * k.
C3_MinimumDataBoundary ==
    (PredictionsRan /\ FileHas(DATE_FULL) /\ FileHas(TEMP)) =>
        /\ Len(UsableRows) <= 1 =>
              /\ forecast_df = None
              /\ shown \cap {"t3_empty_error", "t3_exception"} # {}
        /\ Len(UsableRows) = 2 =>
              /\ forecast_df # None
              /\ \A k \in 1..Horizon :
                    Predicted(k) =
                        RAdd(RInt(LastValue), RMul(Differences[1], RInt(k)))

-----------------------------------------------------------------------------
(* C4 *)

\* C4: whenever a forecast is produced it has exactly 7 entries, and entry i
\* is dated last_date + i days, last_date being the latest date of the
\* usable observations.
C4_ForecastSteps ==
    forecast_df # None =>
        /\ Len(forecast_df[1]) = 7
        /\ \A i \in 1..Len(forecast_df[1]) :
              forecast_df[1][i].Date = Timestamp(LastUsableDay + i)

\* C4's case: a forecast from an upload whose latest observation is not its
\* last row
C4_Witness ==
    /\ forecast_df # None
    /\ Len(UsableRows) >= 2
    /\ UsableRows[Len(UsableRows)][DATE_FULL][2] < LastUsableDay

-----------------------------------------------------------------------------
(* C5 *)

\* C5 as stated: when the predictions section has run, the shared df that
\* the later sections see is the df that the dataset section left.
C5_InputNotMutated == pc = "tab4" => df = df_tab2

-----------------------------------------------------------------------------
(* C6 *)

\* C6: the series handed to the fit is the usable rows of the upload, sorted
\* ascending by date, every row with a date and a temperature; and when the
\* dataset section cleaned a table, the invalid-dates warning is shown if and
\* only if some date failed to parse, and the rows it leaves are exactly the
\* rows whose date parsed.
C6_CleanSortedSeries ==
    /\ fit_X # None =>
          LET rows == df[1].rows
              n == Len(rows)
          IN  /\ Len(fit_X[1]) = n /\ Len(fit_y[1]) = n
              /\ n = Len(UsableRows)
              /\ \A i \in 1..n :
                    /\ rows[i]["Date"][1] = "ts"
                    /\ rows[i][TEMP][1] = "num"
                    /\ fit_X[1][i] = DayOfYear(rows[i]["Date"][2])
                    /\ fit_y[1][i] = rows[i][TEMP][2]
              /\ \A i \in 1..n - 1 : rows[i]["Date"][2] <= rows[i + 1]["Date"][2]
              /\ \A u \in 1..Len(UsableRows) :
                    Cardinality({i \in 1..n :
                        /\ rows[i]["Date"][2] = UsableRows[u][DATE_FULL][2]
                        /\ rows[i][TEMP] = UsableRows[u][TEMP]})
                    = Cardinality({v \in 1..Len(UsableRows) :
                        /\ UsableRows[v][DATE_FULL] = UsableRows[u][DATE_FULL]
                        /\ UsableRows[v][TEMP] = UsableRows[u][TEMP]})
    /\ (pc \notin {"tab1", "tab2"} /\ FileHas(DATE_FULL)) =>
          LET up == uploaded_file.rows IN
          /\ ("t2_invalid_dates_warning" \in shown)
                <=> (\E i \in 1..Len(up) : up[i][DATE_FULL] = BadText)
          /\ ("t2_all_dates_parsed" \in shown)
                <=> ~ (\E i \in 1..Len(up) : up[i][DATE_FULL] = BadText)
          /\ \A i \in 1..Len(df_tab2[1].rows) : df_tab2[1].rows[i]["Date"][1] = "ts"
          /\ Len(df_tab2[1].rows)
                = Cardinality({i \in 1..Len(up) : up[i][DATE_FULL][1] = "text"})

\* C6's case: a model was fitted on an upload with an unparseable date whose
\* usable rows were not in date order
C6_Witness ==
    /\ model # None
    /\ "t2_invalid_dates_warning" \in shown
    /\ \E i \in 1..Len(UsableRows) - 1 :
          UsableRows[i][DATE_FULL][2] > UsableRows[i + 1][DATE_FULL][2]

-----------------------------------------------------------------------------
(* C7 *)

PredictionsError ==
    shown \cap {"t3_please_upload", "t3_empty_error",
                "t3_no_temperature_column_error"} # {}

\* C7: when the predictions section reports an error no forecast table is
\* produced or shown and no fit is attempted; and it reports one whenever no
\* dataset was loaded, the dataset is empty after cleaning, or the
\* temperature column is missing.
C7_NoPartialResultsOnError ==
    /\ PredictionsError =>
          /\ forecast_df = None
          /\ combined = None
          /\ model = None
          /\ fit_X = None
          /\ shown \cap {"t3_forecast_table", "t3_combined_table"} = {}
    /\ (PredictionsRan /\ (df_tab2 = None \/ Len(df_tab2[1].rows) = 0
                           \/ TEMP \notin df_tab2[1].columns))
          => PredictionsError

\* C7's case: the empty-after-cleaning error on an upload that had rows
C7_Witness ==
    /\ "t3_empty_error" \in shown
    /\ Len(uploaded_file.rows) > 0
    /\ FileHas(TEMP)

-----------------------------------------------------------------------------
(* C8 *)

\* C8: every fetch_forecast call sends one request; after a response with a
\* status other than 200 the 7-row forecast and the live-unavailable warning
\* are shown and there is no combined table; after a 200 response the
\* combined table holds, in date order, every live row and every predicted
\* row, joined where their dates agree.
C8_LiveFallbackAndMerge ==
    /\ http.requests = http.calls
    /\ (live_response # None /\ ~ live_response[1].raises) =>
          LET resp == live_response[1]
              live == resp.forecastday
              fc == forecast_df[1]
          IN  /\ Len(fc) = 7
              /\ "t3_forecast_table" \in shown
              /\ resp.status_code # 200 =>
                    /\ combined = None
                    /\ "t3_live_unavailable_warning" \in shown
                    /\ "t3_combined_table" \notin shown
                    /\ "t3_exception" \notin shown
              /\ resp.status_code = 200 =>
                    /\ combined # None
                    /\ "t3_combined_table" \in shown
                    /\ \A i \in 1..Len(fc) : \E j \in 1..Len(combined[1]) :
                          /\ combined[1][j].Date = fc[i].Date
                          /\ combined[1][j].Predicted = RNum(fc[i].Predicted)
                    /\ \A i \in 1..Len(live) : \E j \in 1..Len(combined[1]) :
                          /\ combined[1][j].Date = Timestamp(live[i].date[2])
                          /\ combined[1][j].Live = live[i].avgtemp_c
                    /\ \A j \in 1..Len(combined[1]) - 1 :
                          combined[1][j].Date[2] < combined[1][j + 1].Date[2]
                    /\ \A j \in 1..Len(combined[1]) :
                          /\ (combined[1][j].Live = NaN) <=>
                                ~ \E i \in 1..Len(live) :
                                      Timestamp(live[i].date[2]) = combined[1][j].Date
                          /\ (combined[1][j].Predicted = RNaN) <=>
                                ~ \E i \in 1..Len(fc) : fc[i].Date = combined[1][j].Date

\* C8's case: a combined table with a live-only row, a joined row and a
\* predicted-only row
C8_Witness ==
    /\ combined # None
    /\ \E j \in 1..Len(combined[1]) : combined[1][j].Predicted = RNaN
    /\ \E j \in 1..Len(combined[1]) : combined[1][j].Live = NaN
    /\ \E j \in 1..Len(combined[1]) :
          combined[1][j].Live # NaN /\ combined[1][j].Predicted # RNaN

-----------------------------------------------------------------------------
(* C9 *)

\* C9 as stated: when the dataset section showed 'Error loading dataset', the
\* predictions and insights sections show their 'please upload' warnings and
\* read no table.
C9_FailedLoadIsNotUploaded ==
    "t2_error_loading" \in shown =>
        /\ PredictionsRan => "t3_please_upload" \in shown
        /\ pc = "done" => "t4_please_upload" \in shown
        /\ insights_df = None

-----------------------------------------------------------------------------
(* C10 *)

\* C10 as stated: the feature at which forecast row i is evaluated is the
\* day-of-year of that row's own date, and so never exceeds 366.
C10_FeatureIsDayOfYearOfForecastDate ==
    forecast_df # None =>
        \A i \in 1..Horizon :
            /\ predict_X[1][i] = DayOfYear(forecast_df[1][i].Date[2])
            /\ predict_X[1][i] <= 366

====
